---- MODULE Spec2Model ----
(***************************************************************************)
(* Model of the indicator pipeline of vn-stock-scanner.  The repository    *)
(* carries two editions of scripts/fetch_data.py:                          *)
(*   "nested"  src/vn-stock-scanner/scripts/fetch_data.py                  *)
(*   "root"    src/scripts/fetch_data.py                                   *)
(* The variable `variant` says which edition runs; definitions that differ *)
(* between the editions exist twice, the root one with the suffix _root.   *)
(*                                                                         *)
(* Numbers.  A pandas/Python float is modelled by an exact rational        *)
(* <<n, d>> with d > 0 in lowest terms.  The non-finite floats are         *)
(* <<0, 0>> (NaN), <<1, 0>> (+inf) and <<-1, 0>> (-inf).  Python's None is *)
(* <<0, -1>>.  Rounding is modelled on the exact value (round-half-even).  *)
(* Row i of a column (0-based in the code) is position i + 1 here.         *)
(***************************************************************************)
EXTENDS Integers, Sequences, FiniteSets, TLC

(* ------------------------------ numbers ------------------------------- *)

NaN == <<0, 0>>
None == <<0, -1>>

Abs(n) == IF n < 0 THEN -n ELSE n

Sgn(n) == IF n > 0 THEN 1 ELSE IF n < 0 THEN -1 ELSE 0

RECURSIVE Gcd(_, _)
Gcd(a, b) == IF b = 0 THEN a ELSE Gcd(b, a % b)

Norm(n, d) ==
    LET s == IF d < 0 THEN -1 ELSE 1
        g == Gcd(Abs(n), Abs(d))
    IN  <<(s * n) \div g, (s * d) \div g>>

Num(k) == <<k, 1>>

IsNaN(x) == x = NaN
IsNone(x) == x = None
IsFinite(x) == x[2] > 0
IsInf(x) == x[2] = 0 /\ x[1] # 0
IsZero(x) == IsFinite(x) /\ x[1] = 0

Neg(x) == <<-x[1], x[2]>>

Add(x, y) ==
    IF x[2] = 1 /\ y[2] = 1 THEN <<x[1] + y[1], 1>>
    ELSE IF IsNaN(x) \/ IsNaN(y) THEN NaN
    ELSE IF IsInf(x) /\ IsInf(y) THEN (IF x = y THEN x ELSE NaN)
    ELSE IF IsInf(x) THEN x
    ELSE IF IsInf(y) THEN y
    ELSE Norm(x[1] * y[2] + y[1] * x[2], x[2] * y[2])

Sub(x, y) == Add(x, Neg(y))

Mul(x, y) ==
    IF x[2] = 1 /\ y[2] = 1 THEN <<x[1] * y[1], 1>>
    ELSE IF IsNaN(x) \/ IsNaN(y) THEN NaN
    ELSE IF IsInf(x) \/ IsInf(y)
         THEN (IF x[1] = 0 \/ y[1] = 0 THEN NaN ELSE <<Sgn(x[1]) * Sgn(y[1]), 0>>)
    ELSE Norm(x[1] * y[1], x[2] * y[2])

\* numpy / pandas division: x / 0 is an infinity or NaN, never an exception.
Div(x, y) ==
    IF IsNaN(x) \/ IsNaN(y) THEN NaN
    ELSE IF IsInf(x) THEN (IF IsInf(y) THEN NaN
                           ELSE <<x[1] * (IF y[1] < 0 THEN -1 ELSE 1), 0>>)
    ELSE IF IsInf(y) THEN Num(0)
    ELSE IF y[1] = 0 THEN (IF x[1] = 0 THEN NaN ELSE <<Sgn(x[1]), 0>>)
    ELSE Norm(x[1] * y[2], x[2] * y[1])

AbsV(x) == <<Abs(x[1]), x[2]>>

\* x < y on floats: FALSE as soon as one side is NaN.
Lt(x, y) ==
    IF IsNaN(x) \/ IsNaN(y) THEN FALSE
    ELSE IF IsInf(x) \/ IsInf(y)
         THEN (IF IsInf(x) /\ IsInf(y) THEN x[1] < y[1]
               ELSE IF IsInf(x) THEN x[1] < 0 ELSE y[1] > 0)
    ELSE x[1] * y[2] < y[1] * x[2]

\* x == y on floats: NaN equals nothing, itself included.
Eq(x, y) == ~IsNaN(x) /\ ~IsNaN(y) /\ x = y

\* numpy.sign: -1, 0, +1, NaN for NaN.
SignV(x) == IF IsNaN(x) THEN NaN ELSE Num(Sgn(x[1]))

\* Nearest integer to n / d (d > 0), ties to the even integer.
RoundHalfEven(n, d) ==
    LET q == n \div d
        r == n % d
    IN  IF 2 * r < d THEN q
        ELSE IF 2 * r > d THEN q + 1
        ELSE IF q % 2 = 0 THEN q ELSE q + 1

\* round(x, k) with 10^k = scale; NaN and the infinities round to themselves.
RoundTo(x, scale) ==
    IF ~IsFinite(x) THEN x
    ELSE Norm(RoundHalfEven(x[1] * scale, x[2]), scale)

Round2(x) == RoundTo(x, 100)
Round1(x) == RoundTo(x, 10)
Round0(x) == RoundTo(x, 1)

\* int(x): truncation toward zero; the caller guarantees x is finite.
Trunc(x) ==
    IF x[1] >= 0 THEN Num(x[1] \div x[2]) ELSE Num(-((-x[1]) \div x[2]))

\* Python truthiness of a float: only 0.0 is false (NaN is true).
Truthy(x) == ~IsZero(x)

\* `x or 0`
OrZero(x) == IF Truthy(x) THEN x ELSE Num(0)

(* --------------------------- program constants ------------------------ *)

ADMF_LENGTH == 14

\* `len(df) < 60`
MinBars == 60

\* the windows of rolling(5), rolling(20), rolling(60)
Windows == {5, 20, 60}

\* the four lookbacks process_stock passes to the oscillation statistics
Horizons == {22, 44, 66, 88}

(* --------------------------- pandas column steps ---------------------- *)

\* A pandas column as an explicit sequence, every cell evaluated once.
Force(col) == col \o <<>>

\* col[a] + ... + col[b], summed by halves
RECURSIVE SumRange(_, _, _)
SumRange(col, a, b) ==
    IF a > b THEN Num(0)
    ELSE IF a = b THEN col[a]
    ELSE LET m == (a + b) \div 2
         IN  Add(SumRange(col, a, m), SumRange(col, m + 1, b))

\* the running sums acc + col[a], acc + col[a] + col[a+1], ... up to b
RECURSIVE CumSum(_, _, _, _)
CumSum(col, acc, a, b) ==
    IF a > b THEN <<>>
    ELSE IF a = b THEN <<Add(acc, col[a])>>
    ELSE LET m == (a + b) \div 2
             left == CumSum(col, acc, a, m)
         IN  left \o CumSum(col, left[Len(left)], m + 1, b)

\* Series.rolling(w).mean(): missing until w values are in the window, and
\* missing while the window holds a missing value (min_periods = w).  The
\* window sum is kept as the difference of two running sums.
RollingMean(col, w) ==
    LET n == Len(col)
        bad == {q \in 1..n : ~IsFinite(col[q])}
        run == CumSum([q \in 1..n |-> IF q \in bad THEN Num(0) ELSE col[q]],
                      Num(0), 1, n)
    IN  [p \in 1..n |->
            IF p < w THEN NaN
            ELSE IF \E q \in bad : p - w < q /\ q <= p THEN NaN
            ELSE Div(Sub(run[p], IF p = w THEN Num(0) ELSE run[p - w]), Num(w))]

\* Series.shift(1)
Shift1(col) == Force([p \in 1..Len(col) |-> IF p = 1 THEN NaN ELSE col[p - 1]])

\* Series.diff()
Diff(col) ==
    LET prev == Shift1(col)
    IN  Force([p \in 1..Len(col) |-> Sub(col[p], prev[p])])

\* max of two floats that skips a missing one (skipna=True)
Max2(x, y) ==
    IF IsNaN(x) THEN y
    ELSE IF IsNaN(y) THEN x
    ELSE IF Lt(x, y) THEN y ELSE x

\* Python's built-in max(x, y): the first argument unless the second is greater
PyMax(x, y) == IF Lt(x, y) THEN y ELSE x

\* max of col[a..b] with skipna=True; NaN when nothing is left
RECURSIVE MaxRange(_, _, _)
MaxRange(col, a, b) ==
    IF a > b THEN NaN
    ELSE IF a = b THEN col[a]
    ELSE LET m == (a + b) \div 2
         IN  Max2(MaxRange(col, a, m), MaxRange(col, m + 1, b))

\* Series.replace(0, np.nan)
ReplaceZeroNaN(col) ==
    Force([p \in 1..Len(col) |-> IF IsZero(col[p]) THEN NaN ELSE col[p]])

\* the column left as it is
FillNa0_skip(col) == col

\* Series.fillna(0)
FillNa0(col) ==
    Force([p \in 1..Len(col) |-> IF IsNaN(col[p]) THEN Num(0) ELSE col[p]])

\* One step of pandas' ewm(alpha, adjust=False, ignore_na=False).mean():
\* st = <<weighted, old_wt>>, cur the next input.
EwmStep(st, cur, alpha) ==
    LET weighted == st[1]
        old_wt == Mul(st[2], Sub(Num(1), alpha))
    IN  IF ~IsNaN(weighted)
        THEN IF ~IsNaN(cur)
             THEN <<IF weighted # cur
                    THEN Div(Add(Mul(old_wt, weighted), Mul(alpha, cur)),
                             Add(old_wt, alpha))
                    ELSE weighted,
                    Num(1)>>
             ELSE <<weighted, old_wt>>
        ELSE IF ~IsNaN(cur) THEN <<cur, st[2]>>
        ELSE st

\* the <<weighted, old_wt>> after each of vals[a..b], entered in state st
RECURSIVE EwmStates(_, _, _, _, _)
EwmStates(vals, alpha, st, a, b) ==
    IF a > b THEN <<>>
    ELSE IF a = b THEN <<EwmStep(st, vals[a], alpha)>>
    ELSE LET m == (a + b) \div 2
             left == EwmStates(vals, alpha, st, a, m)
         IN  left \o EwmStates(vals, alpha, left[Len(left)], m + 1, b)

\* the average held back (missing) until `length` rows have been seen
rma_warmup(series, length) ==
    LET st == EwmStates(series, Div(Num(1), Num(length)), <<NaN, Num(1)>>,
                        1, Len(series))
    IN  [p \in 1..Len(series) |-> IF p < length THEN NaN ELSE st[p][1]]

\* rma(series, length): series.ewm(alpha=1/length, adjust=False).mean();
\* before the first row nothing has been observed: weighted = NaN, old_wt = 1.
rma(series, length) ==
    LET st == EwmStates(series, Div(Num(1), Num(length)), <<NaN, Num(1)>>,
                        1, Len(series))
    IN  [p \in 1..Len(series) |-> st[p][1]]

\* the row maximum with skipna=False: missing as soon as one term is missing
calculate_true_range_strict(df) ==
    Force([p \in 1..Len(df) |->
        LET close_prev == IF p = 1 THEN NaN ELSE df[p - 1].c
            tr1 == Sub(df[p].h, df[p].l)
            tr2 == AbsV(Sub(df[p].h, close_prev))
            tr3 == AbsV(Sub(df[p].l, close_prev))
        IN  IF IsNaN(tr1) \/ IsNaN(tr2) \/ IsNaN(tr3) THEN NaN
            ELSE Max2(Max2(tr1, tr2), tr3)])

\* pd.concat([h - l, |h - c.shift(1)|, |l - c.shift(1)|], axis=1).max(axis=1)
calculate_true_range(df) ==
    Force([p \in 1..Len(df) |->
        LET close_prev == IF p = 1 THEN NaN ELSE df[p - 1].c
            tr1 == Sub(df[p].h, df[p].l)
            tr2 == AbsV(Sub(df[p].h, close_prev))
            tr3 == AbsV(Sub(df[p].l, close_prev))
        IN  Max2(Max2(tr1, tr2), tr3)])

Close(df) == Force([p \in 1..Len(df) |-> df[p].c])
Volume(df) == Force([p \in 1..Len(df) |-> df[p].v])

\* c.diff() / tr.replace(0, nan), then fillna(0)
ad_ratio_of(df, tr) ==
    LET close_change == Diff(Close(df))
        denom == ReplaceZeroNaN(tr)
    IN  FillNa0(Force([p \in 1..Len(df) |-> Div(close_change[p], denom[p])]))

\* hlc3 * ad_ratio, the volume left out
weighted_flow_no_volume(df, ad_ratio) ==
    Force([p \in 1..Len(df) |->
        LET hlc3 == Div(Add(Add(df[p].h, df[p].l), df[p].c), Num(3))
        IN  Mul(hlc3, ad_ratio[p])])

\* v * hlc3 * ad_ratio
weighted_flow(df, ad_ratio) ==
    Force([p \in 1..Len(df) |->
        LET hlc3 == Div(Add(Add(df[p].h, df[p].l), df[p].c), Num(3))
        IN  Mul(Mul(df[p].v, hlc3), ad_ratio[p])])

calculate_admf(df, tr, ad_ratio) == rma(weighted_flow(df, ad_ratio), ADMF_LENGTH)

(* ------------------------------ convergence --------------------------- *)

\* the spread taken relative to the first value instead of the pair's average
pct_diff_first(a, b) ==
    IF Eq(a, Num(0)) /\ Eq(b, Num(0)) THEN Num(0)
    ELSE IF ~Eq(a, Num(0))
         THEN Mul(Div(AbsV(Sub(a, b)), a), Num(100))
         ELSE Num(0)

\* calculate_convergence.pct_diff (nested), diff_percent (root) and both
\* editions' process_stock.va_diff have this one body.
pct_diff(a, b) ==
    IF Eq(a, Num(0)) /\ Eq(b, Num(0)) THEN Num(0)
    ELSE LET avg == Div(Add(a, b), Num(2))
         IN  IF ~Eq(avg, Num(0))
             THEN Mul(Div(AbsV(Sub(a, b)), avg), Num(100))
             ELSE Num(0)

\* nested edition: the mean of the three pairwise spreads
calculate_convergence(ma5, ma20, ma60) ==
    LET ma5_20 == pct_diff(ma5, ma20)
        ma20_60 == pct_diff(ma20, ma60)
        ma5_60 == pct_diff(ma5, ma60)
        ma_converge == Div(Add(Add(ma5_20, ma20_60), ma5_60), Num(3))
    IN  [ma5_20 |-> Round2(ma5_20),
         ma20_60 |-> Round2(ma20_60),
         ma5_60 |-> Round2(ma5_60),
         maConverge |-> Round2(ma_converge)]

\* root edition: calculate_convergence.max_deviation
max_deviation(a, b, c) ==
    LET avg == Div(Add(Add(a, b), c), Num(3))
        dev(x) == Mul(Div(AbsV(Sub(x, avg)), avg), Num(100))
    IN  IF Eq(avg, Num(0)) THEN Num(0)
        ELSE PyMax(PyMax(dev(a), dev(b)), dev(c))

\* root edition: the largest deviation from the three-value average
calculate_convergence_root(ma5, ma20, ma60) ==
    [ma5_20 |-> Round2(pct_diff(ma5, ma20)),
     ma20_60 |-> Round2(pct_diff(ma20, ma60)),
     ma5_60 |-> Round2(pct_diff(ma5, ma60)),
     maConverge |-> Round2(max_deviation(ma5, ma20, ma60))]

\* nested edition: (va_diff(va5, va20) + va_diff(va20, va60)) / 2
va_converge(va5, va20, va60) ==
    Div(Add(pct_diff(va5, va20), pct_diff(va20, va60)), Num(2))

\* root edition: max(va_diff(va5, va20), va_diff(va20, va60), va_diff(va5, va60)) / 3
va_converge_root(va5, va20, va60) ==
    Div(PyMax(PyMax(pct_diff(va5, va20), pct_diff(va20, va60)),
              pct_diff(va5, va60)),
        Num(3))

(* ------------------------- oscillation statistics --------------------- *)

\* Series.tail(k)
TailSeq(col, k) ==
    IF k >= Len(col) THEN col ELSE SubSeq(col, Len(col) - k + 1, Len(col))

\* Series.dropna()
DropNa(col) == SelectSeq(col, LAMBDA x : ~IsNaN(x))

SumSeq(col) == SumRange(col, 1, Len(col))

\* Series.mean() of a non-empty column
MeanSeq(col) == Div(SumSeq(col), Num(Len(col)))

AbsSeq(col) == Force([p \in 1..Len(col) |-> AbsV(col[p])])

SeqMax(col) == MaxRange(col, 1, Len(col))

\* (np.sign(recent).diff().abs() > 0).sum()
zero_crosses_of(recent) ==
    Cardinality({p \in 2..Len(recent) :
        Lt(Num(0), AbsV(Sub(SignV(recent[p]), SignV(recent[p - 1]))))})

\* the whole lookback demanded instead of half of it
insufficient_full(recent, period_days) == Len(recent) < period_days

\* `len(recent) < period_days * 0.5`
insufficient(recent, period_days) == 2 * Len(recent) < period_days

\* the largest value instead of the largest absolute value
window_max_signed(recent) == SeqMax(recent)

\* recent.abs().max()
window_max_abs(recent) == SeqMax(AbsSeq(recent))

\* the absent result (Python None) of the statistics
NoStats == [present |-> FALSE]

\* nested edition
calculate_admf_stats(admf_series, period_days) ==
    LET recent == DropNa(TailSeq(admf_series, period_days))
        max_abs == window_max_abs(recent)
        normalized == Force([p \in 1..Len(recent) |-> Div(recent[p], max_abs)])
        near == Cardinality({p \in 1..Len(recent) :
                    Lt(AbsV(normalized[p]), <<1, 5>>)})
    IN  IF insufficient(recent, period_days) THEN NoStats
        ELSE IF Eq(max_abs, Num(0)) THEN NoStats
        ELSE [present |-> TRUE,
              zero_cross_count |-> zero_crosses_of(recent),
              avg_distance |-> Round2(Mul(MeanSeq(AbsSeq(normalized)), Num(100))),
              max_distance |-> Round2(Mul(SeqMax(AbsSeq(normalized)), Num(100))),
              pct_near_zero |->
                  Round1(Mul(Div(Num(near), Num(Len(normalized))), Num(100)))]

\* root edition: the same statistics plus oscillation_score
calculate_admf_oscillation(admf_series, period_days) ==
    LET recent == DropNa(TailSeq(admf_series, period_days))
        max_abs == window_max_abs(recent)
        normalized == Force([p \in 1..Len(recent) |-> Div(recent[p], max_abs)])
        zero_crosses == zero_crosses_of(recent)
        avg_distance == MeanSeq(AbsSeq(normalized))
        max_distance == SeqMax(AbsSeq(normalized))
        near_zero ==
            Mul(Div(Num(Cardinality({p \in 1..Len(recent) :
                        Lt(AbsV(normalized[p]), <<1, 5>>)})),
                    Num(Len(normalized))), Num(100))
        oscillation_score ==
            Sub(Sub(Mul(avg_distance, Num(100)), Num(zero_crosses * 2)),
                Div(near_zero, Num(2)))
    IN  IF insufficient(recent, period_days) THEN NoStats
        ELSE IF Eq(max_abs, Num(0)) THEN NoStats
        ELSE [present |-> TRUE,
              oscillation_score |-> Round2(oscillation_score),
              zero_cross_count |-> zero_crosses,
              avg_distance |-> Round2(Mul(avg_distance, Num(100))),
              max_distance |-> Round2(Mul(max_distance, Num(100))),
              pct_near_zero |-> Round1(near_zero)]

(* ------------------------------- the state --------------------------- *)

VARIABLES
    variant,    \* "nested" or "root": the edition of fetch_data.py that runs
    pc,         \* position inside process_stock and the fetch_stock_data it calls
    df,         \* the DataFrame: [none, bars, ma5 .. va60, tr, ad_ratio, admf]
    loc,        \* process_stock's locals ma5, ma20, ma60, va5, va20, va60
    snapshot,   \* process_stock's snapshot dict
    daily,      \* process_stock's daily["data"] rows
    result,     \* what process_stock gives its caller
    call,       \* a helper called on its own: its name and arguments
    ret,        \* what that helper returned
    main        \* main(): its locals, its position and the files it wrote

vars == <<variant, pc, df, loc, snapshot, daily, result, call, ret, main>>

(* ------------------------- what the data source returns --------------- *)

\* bars the source may return beyond the 60 the record builder asks for
MaxExtra == 1

\* bars at the end of the history that differ from the flat run before them
MaxTail == 2

\* traded volume per bar ranges over 0..MaxVol
MaxVol == 1

\* spread high - low of the flat run's bars (low = close = BaseClose)
Spreads == {0, 1}
BaseClose == 1

Bar(c, s, v) ==
    [o |-> Num(c), h |-> Num(c + s), l |-> Num(c), c |-> Num(c), v |-> Num(v)]

\* <<close, spread>> of a tail bar: back at the base, one level up, one level
\* up with a range
TailShapes == {<<BaseClose, 0>>, <<BaseClose + 1, 0>>, <<BaseClose + 1, 1>>}

Tails == UNION {[1..k -> TailShapes] : k \in 0..MaxTail}

\* at most one field of the history is missing: the close or the volume of
\* the last bar or of the bar before it
MissingOptions(tail) ==
    {<<"none", 0>>}
        \cup ({"c", "v"} \X {j \in 1..Len(tail) : j >= Len(tail) - 1})

Lens == {0} \cup ((MinBars - 1)..(MinBars + MaxExtra))

History(n, s0, v, tail, miss) ==
    [p \in 1..n |->
        LET j == p - (n - Len(tail))
            b == IF j >= 1 THEN Bar(tail[j][1], tail[j][2], v)
                 ELSE Bar(BaseClose, s0, v)
        IN  IF j >= 1 /\ miss = <<"c", j>> THEN [b EXCEPT !.c = NaN]
            ELSE IF j >= 1 /\ miss = <<"v", j>> THEN [b EXCEPT !.v = NaN]
            ELSE b]

NoColumn == <<>>

EmptyFrame ==
    [none |-> TRUE, bars |-> <<>>,
     ma5 |-> NoColumn, ma20 |-> NoColumn, ma60 |-> NoColumn,
     va5 |-> NoColumn, va20 |-> NoColumn, va60 |-> NoColumn,
     tr |-> NoColumn, ad_ratio |-> NoColumn, admf |-> NoColumn]

NoLocals == [set |-> FALSE]
NoSnapshot == [set |-> FALSE]
NoDaily == <<>>
NoCall == [fn |-> "none"]
NoRet == [set |-> FALSE]

\* main() has not been entered
NoMain == [status |-> "idle"]

Init ==
    /\ variant \in {"nested", "root"}
    /\ pc = "fetch"
    /\ df = EmptyFrame
    /\ loc = NoLocals
    /\ snapshot = NoSnapshot
    /\ daily = NoDaily
    /\ result = [kind |-> "pending"]
    /\ call = NoCall
    /\ ret = NoRet
    /\ main = NoMain

(* ---------------------------- fetch_stock_data ------------------------ *)

\* stock.quote.history(...) answers; None, an empty frame or an exception make
\* fetch_stock_data return None.
FetchHistory ==
    /\ pc = "fetch"
    /\ \/ /\ df' = EmptyFrame
          /\ pc' = "check"
       \/ \E n \in Lens, s0 \in Spreads, v \in 0..MaxVol, tail \in Tails :
            \E miss \in MissingOptions(tail) :
               IF n = 0
               THEN df' = EmptyFrame /\ pc' = "check"
               ELSE /\ df' = [EmptyFrame EXCEPT !.none = FALSE,
                                 !.bars = History(n, s0, v, tail, miss)]
                    /\ pc' = "ma"
    /\ UNCHANGED <<main, variant, loc, snapshot, daily, result, call, ret>>

\* df['c'].rolling(w).mean() and df['v'].rolling(w).mean() for w = 5, 20, 60
ComputeMA ==
    /\ pc = "ma"
    /\ df' = [df EXCEPT
                !.ma5 = RollingMean(Close(df.bars), 5),
                !.ma20 = RollingMean(Close(df.bars), 20),
                !.ma60 = RollingMean(Close(df.bars), 60),
                !.va5 = RollingMean(Volume(df.bars), 5),
                !.va20 = RollingMean(Volume(df.bars), 20),
                !.va60 = RollingMean(Volume(df.bars), 60)]
    /\ pc' = IF variant = "nested" THEN "admf" ELSE "check"
    /\ UNCHANGED <<main, variant, loc, snapshot, daily, result, call, ret>>

\* nested: the tail of fetch_stock_data; root: calculate_admf, which
\* process_stock calls once the length check has passed.
ComputeADMF ==
    /\ pc = "admf"
    /\ LET tr == calculate_true_range(df.bars)
           ad_ratio == ad_ratio_of(df.bars, tr)
       IN  df' = [df EXCEPT !.tr = tr, !.ad_ratio = ad_ratio,
                     !.admf = calculate_admf(df.bars, tr, ad_ratio)]
    /\ pc' = IF variant = "nested" THEN "check" ELSE "build"
    /\ UNCHANGED <<main, variant, loc, snapshot, daily, result, call, ret>>

(* ------------------------------ process_stock ------------------------- *)

\* the threshold one bar lower
too_short_59(d) == d.none \/ Len(d.bars) < MinBars - 1

\* `df is None or len(df) < 60`
too_short(d) == d.none \/ Len(d.bars) < MinBars

\* `if df is None or len(df) < 60: return None`
CheckLength ==
    /\ pc = "check"
    /\ IF too_short(df)
       THEN pc' = "done" /\ result' = [kind |-> "none"]
       ELSE pc' = (IF variant = "nested" THEN "build" ELSE "admf")
            /\ UNCHANGED result
    /\ UNCHANGED <<main, variant, df, loc, snapshot, daily, call, ret>>

\* latest = df.iloc[-1]; ma5 = latest.get('ma5', 0) or 0; ... (the same read
\* in both editions; the nested one wraps it in float())
latest_values(d) ==
    LET n == Len(d.bars)
    IN  [set |-> TRUE,
         ma5 |-> OrZero(d.ma5[n]), ma20 |-> OrZero(d.ma20[n]),
         ma60 |-> OrZero(d.ma60[n]),
         va5 |-> OrZero(d.va5[n]), va20 |-> OrZero(d.va20[n]),
         va60 |-> OrZero(d.va60[n])]

\* int(x) raises ValueError on NaN and OverflowError on an infinity
IntRaises(x) == ~IsFinite(x)

\* nested edition: the only conversion of the snapshot that can raise is
\* int(latest['v'])
snapshot_raises(d, lv) == IntRaises(d.bars[Len(d.bars)].v)

\* root edition: int(latest['v']), int(va5), int(va20), int(va60)
snapshot_raises_root(d, lv) ==
    \/ IntRaises(d.bars[Len(d.bars)].v)
    \/ IntRaises(lv.va5) \/ IntRaises(lv.va20) \/ IntRaises(lv.va60)

\* nested edition: the snapshot dict
snapshot_of(d, lv) ==
    LET latest == d.bars[Len(d.bars)]
        convergence == calculate_convergence(lv.ma5, lv.ma20, lv.ma60)
    IN  [set |-> TRUE,
         price |-> Round2(latest.c),
         volume |-> Trunc(latest.v),
         ma5 |-> Round2(lv.ma5), ma20 |-> Round2(lv.ma20), ma60 |-> Round2(lv.ma60),
         ma5_20 |-> convergence.ma5_20, ma20_60 |-> convergence.ma20_60,
         ma5_60 |-> convergence.ma5_60, maConverge |-> convergence.maConverge,
         vaConverge |-> Round2(va_converge(lv.va5, lv.va20, lv.va60)),
         admf |-> Round0(OrZero(d.admf[Len(d.bars)])),
         admf_1m |-> calculate_admf_stats(d.admf, 22),
         admf_2m |-> calculate_admf_stats(d.admf, 44),
         admf_3m |-> calculate_admf_stats(d.admf, 66),
         admf_4m |-> calculate_admf_stats(d.admf, 88)]

\* root edition: the snapshot dict
snapshot_of_root(d, lv) ==
    LET latest == d.bars[Len(d.bars)]
        convergence == calculate_convergence_root(lv.ma5, lv.ma20, lv.ma60)
    IN  [set |-> TRUE,
         price |-> Round2(latest.c),
         volume |-> Trunc(latest.v),
         ma5 |-> Round2(lv.ma5), ma20 |-> Round2(lv.ma20), ma60 |-> Round2(lv.ma60),
         va5 |-> Trunc(lv.va5), va20 |-> Trunc(lv.va20), va60 |-> Trunc(lv.va60),
         ma5_20 |-> convergence.ma5_20, ma20_60 |-> convergence.ma20_60,
         ma5_60 |-> convergence.ma5_60, maConverge |-> convergence.maConverge,
         va5_20 |-> Round2(pct_diff(lv.va5, lv.va20)),
         va20_60 |-> Round2(pct_diff(lv.va20, lv.va60)),
         vaConverge |-> Round2(va_converge_root(lv.va5, lv.va20, lv.va60)),
         admf |-> Round0(OrZero(d.admf[Len(d.bars)])),
         admf_1m |-> calculate_admf_oscillation(d.admf, 22),
         admf_2m |-> calculate_admf_oscillation(d.admf, 44),
         admf_3m |-> calculate_admf_oscillation(d.admf, 66),
         admf_4m |-> calculate_admf_oscillation(d.admf, 88),
         totalDays |-> Len(d.bars)]

\* From `latest = df.iloc[-1]` to the end of the snapshot dict.  An exception
\* leaves process_stock without a return value.
BuildSnapshot ==
    /\ pc = "build"
    /\ LET lv == latest_values(df)
           raises == IF variant = "nested" THEN snapshot_raises(df, lv)
                     ELSE snapshot_raises_root(df, lv)
       IN  /\ loc' = lv
           /\ IF raises
              THEN /\ pc' = "done"
                   /\ result' = [kind |-> "raised"]
                   /\ UNCHANGED snapshot
              ELSE /\ pc' = "daily"
                   /\ snapshot' = (IF variant = "nested" THEN snapshot_of(df, lv)
                                   ELSE snapshot_of_root(df, lv))
                   /\ UNCHANGED result
    /\ UNCHANGED <<main, variant, df, daily, call, ret>>

\* a missing price or average written as 0.0
Cell2_zero(x) == IF IsNaN(x) THEN Num(0) ELSE Round2(x)

\* `f(row[x]) if pd.notna(row.get(x)) else None`
Cell2(x) == IF IsNaN(x) THEN None ELSE Round2(x)
CellInt(x) == IF IsNaN(x) THEN None ELSE Trunc(x)
Cell0(x) == IF IsNaN(x) THEN None ELSE Round0(x)

\* one row of daily["data"] (the date string is left out)
daily_row(d, p) ==
    [o |-> Cell2(d.bars[p].o), h |-> Cell2(d.bars[p].h),
     l |-> Cell2(d.bars[p].l), c |-> Cell2(d.bars[p].c),
     v |-> CellInt(d.bars[p].v),
     ma5 |-> Cell2(d.ma5[p]), ma20 |-> Cell2(d.ma20[p]), ma60 |-> Cell2(d.ma60[p]),
     va5 |-> CellInt(d.va5[p]), va20 |-> CellInt(d.va20[p]),
     va60 |-> CellInt(d.va60[p]),
     admf |-> Cell0(d.admf[p])]

\* the loop over df.iterrows() and `return {"snapshot": ..., "daily": ...}`
BuildDaily ==
    /\ pc = "daily"
    /\ daily' = [p \in 1..Len(df.bars) |-> daily_row(df, p)]
    /\ result' = [kind |-> "ok"]
    /\ pc' = "done"
    /\ UNCHANGED <<main, variant, df, loc, snapshot, call, ret>>

Next ==
    \/ FetchHistory
    \/ ComputeMA
    \/ ComputeADMF
    \/ CheckLength
    \/ BuildSnapshot
    \/ BuildDaily

Spec == Init /\ [][Next]_vars

(* ---------------- the oscillation statistics called on their own ------ *)

\* longest admf column handed to the statistics
MaxCol == 3

\* the column's values are missing or an integer in -MaxAbs..MaxAbs
MaxAbs == 2

\* the lookbacks tried are 1..MaxPeriod
MaxPeriod == 4

StatValues == {NaN} \cup {Num(i) : i \in (-MaxAbs)..MaxAbs}

StatColumns == UNION {[1..k -> StatValues] : k \in 0..MaxCol}

InitStats ==
    /\ variant \in {"nested", "root"}
    /\ pc = "call"
    /\ df = EmptyFrame
    /\ loc = NoLocals
    /\ snapshot = NoSnapshot
    /\ daily = NoDaily
    /\ result = [kind |-> "pending"]
    /\ call \in {[fn |-> "stats", series |-> s, period_days |-> k] :
                    s \in StatColumns, k \in 1..MaxPeriod}
    /\ ret = NoRet
    /\ main = NoMain

\* calculate_admf_stats (nested) or calculate_admf_oscillation (root) returns
ApplyStats ==
    /\ pc = "call"
    /\ call.fn = "stats"
    /\ ret' = IF variant = "nested"
              THEN calculate_admf_stats(call.series, call.period_days)
              ELSE calculate_admf_oscillation(call.series, call.period_days)
    /\ pc' = "returned"
    /\ UNCHANGED <<main, variant, df, loc, snapshot, daily, result, call>>

NextStats == ApplyStats

SpecStats == InitStats /\ [][NextStats]_vars

(* ------------------- the convergence helpers called on their own ------ *)

\* the averages handed to the convergence helpers are integers in -1..MaxConv
MaxConv == 3

ConvValues == {Num(i) : i \in (-1)..MaxConv}

InitConv ==
    /\ variant \in {"nested", "root"}
    /\ pc = "call"
    /\ df = EmptyFrame
    /\ loc = NoLocals
    /\ snapshot = NoSnapshot
    /\ daily = NoDaily
    /\ result = [kind |-> "pending"]
    /\ call \in {[fn |-> f, a |-> a, b |-> b, c |-> c] :
                    f \in {"calculate_convergence", "va_converge"},
                    a \in ConvValues, b \in ConvValues, c \in ConvValues}
               \cup {[fn |-> "pct_diff", a |-> a, b |-> b] :
                    a \in ConvValues, b \in ConvValues}
    /\ ret = NoRet
    /\ main = NoMain

\* calculate_convergence(ma5, ma20, ma60) returns its dict
ApplyConvergence ==
    /\ pc = "call"
    /\ call.fn = "calculate_convergence"
    /\ ret' = IF variant = "nested"
              THEN calculate_convergence(call.a, call.b, call.c)
              ELSE calculate_convergence_root(call.a, call.b, call.c)
    /\ pc' = "returned"
    /\ UNCHANGED <<main, variant, df, loc, snapshot, daily, result, call>>

\* process_stock's va_converge expression is evaluated
ApplyVaConverge ==
    /\ pc = "call"
    /\ call.fn = "va_converge"
    /\ ret' = [set |-> TRUE,
               va_converge |-> IF variant = "nested"
                               THEN va_converge(call.a, call.b, call.c)
                               ELSE va_converge_root(call.a, call.b, call.c)]
    /\ pc' = "returned"
    /\ UNCHANGED <<main, variant, df, loc, snapshot, daily, result, call>>

\* pct_diff / diff_percent / va_diff returns
ApplyPctDiff ==
    /\ pc = "call"
    /\ call.fn = "pct_diff"
    /\ ret' = [set |-> TRUE, value |-> pct_diff(call.a, call.b)]
    /\ pc' = "returned"
    /\ UNCHANGED <<main, variant, df, loc, snapshot, daily, result, call>>

NextConv ==
    \/ ApplyConvergence
    \/ ApplyVaConverge
    \/ ApplyPctDiff

SpecConv == InitConv /\ [][NextConv]_vars

(* ------------------------------ the main loop ------------------------- *)

\* symbols the listing may return: 1..MaxSymbols, each at most once, any order
MaxSymbols == 2

SymbolLists ==
    UNION {{l \in [1..k -> 1..MaxSymbols] :
                \A a \in 1..k, b \in 1..k : a # b => l[a] # l[b]} :
           k \in 0..MaxSymbols}

\* how a call of process_stock ends: a dict, None, or an exception (the three
\* values of result.kind above)
ProcessOutcomes == {"ok", "none", "raised"}

\* sorted(snapshots, key=lambda x: x['symbol'])
RECURSIVE SortBySymbol(_)
SortBySymbol(l) ==
    IF l = <<>> THEN <<>>
    ELSE LET rest == SortBySymbol(Tail(l))
         IN  SelectSeq(rest, LAMBDA x : x < Head(l)) \o <<Head(l)>>
                 \o SelectSeq(rest, LAMBDA x : x >= Head(l))

InitMain ==
    /\ variant \in {"nested", "root"}
    /\ pc = "main"
    /\ df = EmptyFrame
    /\ loc = NoLocals
    /\ snapshot = NoSnapshot
    /\ daily = NoDaily
    /\ result = [kind |-> "pending"]
    /\ call = NoCall
    /\ ret = NoRet
    /\ main = [status |-> "start", step |-> "process", all_stocks |-> <<>>,
               i |-> 1, snapshots |-> <<>>, success |-> 0, failed |-> 0,
               tally |-> <<>>, files |-> {},
               snapshot_json |-> [written |-> FALSE, stocks |-> <<>>]]

\* the symbol of the loop's current iteration
CurrentSymbol == main.all_stocks[main.i]

\* `success += 1` (root: success_count); tally remembers for which symbol
CountSuccess(m) ==
    [m EXCEPT !.success = @ + 1,
              !.tally = Append(@, <<m.all_stocks[m.i], "success">>)]

\* `failed += 1` (root: error_count)
CountFailed(m) ==
    [m EXCEPT !.failed = @ + 1,
              !.tally = Append(@, <<m.all_stocks[m.i], "failed">>)]

\* the end of the loop body: on to the next symbol
NextSymbol(m) == [m EXCEPT !.i = @ + 1, !.step = "process"]

\* get_all_symbols() returns; an empty list ends main at once
GetAllSymbols ==
    /\ pc = "main" /\ main.status = "start"
    /\ \E l \in SymbolLists :
          main' = IF l = <<>> THEN [main EXCEPT !.status = "exited"]
                  ELSE [main EXCEPT !.status = "loop", !.all_stocks = l]
    /\ UNCHANGED <<variant, pc, df, loc, snapshot, daily, result, call, ret>>

\* result = process_stock(...).  nested: inside try, an exception is counted
\* as failed; root: no try, an exception leaves main.
ProcessSymbol ==
    /\ pc = "main" /\ main.status = "loop" /\ main.step = "process"
    /\ main.i <= Len(main.all_stocks)
    /\ \E outcome \in ProcessOutcomes :
          main' = IF outcome = "ok"
                  THEN [main EXCEPT !.step = IF variant = "nested" THEN "append"
                                             ELSE "write"]
                  ELSE IF outcome = "none" THEN NextSymbol(CountFailed(main))
                  ELSE IF variant = "nested" THEN NextSymbol(CountFailed(main))
                  ELSE [main EXCEPT !.status = "crashed"]
    /\ UNCHANGED <<variant, pc, df, loc, snapshot, daily, result, call, ret>>

\* snapshots.append(result['snapshot']).  nested: the first statement of the
\* `if result:` branch; root: after the daily file, followed by success_count += 1.
AppendSnapshot ==
    /\ pc = "main" /\ main.status = "loop" /\ main.step = "append"
    /\ LET appended == [main EXCEPT !.snapshots = Append(@, CurrentSymbol)]
       IN  main' = IF variant = "nested" THEN [appended EXCEPT !.step = "write"]
                   ELSE NextSymbol(CountSuccess(appended))
    /\ UNCHANGED <<variant, pc, df, loc, snapshot, daily, result, call, ret>>

\* with open(daily_file, 'w') as f: json.dump(result['daily'], f), which may
\* raise.  nested: then success += 1, or failed += 1 in the except branch;
\* root: then the append, or the exception leaves main.
WriteDaily ==
    /\ pc = "main" /\ main.status = "loop" /\ main.step = "write"
    /\ \E wrote \in BOOLEAN :
          LET filed == [main EXCEPT !.files = @ \cup {CurrentSymbol}]
          IN  main' = IF variant = "nested"
                      THEN (IF wrote THEN NextSymbol(CountSuccess(filed))
                            ELSE NextSymbol(CountFailed(main)))
                      ELSE (IF wrote THEN [filed EXCEPT !.step = "append"]
                            ELSE [main EXCEPT !.status = "crashed"])
    /\ UNCHANGED <<variant, pc, df, loc, snapshot, daily, result, call, ret>>

\* after the loop: snapshot.json is written (root sorts the list by symbol)
WriteSnapshotJson ==
    /\ pc = "main" /\ main.status = "loop"
    /\ main.i > Len(main.all_stocks)
    /\ main' = [main EXCEPT
                  !.status = "done",
                  !.snapshot_json =
                      [written |-> TRUE,
                       stocks |-> IF variant = "nested" THEN main.snapshots
                                  ELSE SortBySymbol(main.snapshots)]]
    /\ UNCHANGED <<variant, pc, df, loc, snapshot, daily, result, call, ret>>

NextMain ==
    \/ GetAllSymbols
    \/ ProcessSymbol
    \/ AppendSnapshot
    \/ WriteDaily
    \/ WriteSnapshotJson

SpecMain == InitMain /\ [][NextMain]_vars

(* ------------------------------ properties ---------------------------- *)

\* every price and volume field of every bar is a number (the input contract)
NoMissingField(bars) ==
    \A p \in 1..Len(bars) :
        /\ IsFinite(bars[p].o) /\ IsFinite(bars[p].h) /\ IsFinite(bars[p].l)
        /\ IsFinite(bars[p].c) /\ IsFinite(bars[p].v)

MaCell(row, w) == IF w = 5 THEN row.ma5 ELSE IF w = 20 THEN row.ma20 ELSE row.ma60
VaCell(row, w) == IF w = 5 THEN row.va5 ELSE IF w = 20 THEN row.va20 ELSE row.va60

too_short_input == df.none \/ Len(df.bars) < MinBars

\* C1: when process_stock has finished, a history of fewer than 60 bars (or a
\* fetch that returned nothing) has given None, with no snapshot and no daily
\* series; a history of at least 60 bars with no missing field has given both
\* the snapshot and the daily series; and in no case is only one of them there.
C1_RecordsTogether ==
    pc = "done" =>
        /\ too_short_input => (result.kind = "none" /\ ~snapshot.set /\ daily = NoDaily)
        /\ (~too_short_input /\ NoMissingField(df.bars)) =>
              (result.kind = "ok" /\ snapshot.set /\ Len(daily) = Len(df.bars))
        /\ snapshot.set <=> (daily # NoDaily)
        /\ snapshot.set <=> (result.kind = "ok")

C1_Witness ==
    /\ pc = "done" /\ result.kind = "ok" /\ snapshot.set
    /\ Len(df.bars) = MinBars /\ Len(daily) = MinBars

\* C2: in the daily series of a history with no missing field, the price and
\* volume moving-average cells of window w are None on the rows 0 .. w-2 and a
\* number on every later row, for w = 5, 20, 60; so ma60 is None, not 0, on
\* every row before row 59.
C2_AverageCellsNullBeforeWindow ==
    (result.kind = "ok" /\ NoMissingField(df.bars)) =>
        \A p \in 1..Len(daily) : \A w \in Windows :
            /\ p < w => (MaCell(daily[p], w) = None /\ VaCell(daily[p], w) = None)
            /\ p >= w => (IsFinite(MaCell(daily[p], w))
                            /\ IsFinite(VaCell(daily[p], w)))

C2_Witness ==
    /\ result.kind = "ok" /\ NoMissingField(df.bars)
    /\ daily[MinBars - 1].ma60 = None
    /\ IsFinite(daily[MinBars].ma60) /\ daily[MinBars].ma60 # Num(0)
    /\ daily[4].ma5 = None /\ IsFinite(daily[5].va5)

\* positions of the non-missing entries among the trailing k entries of col
WindowPositions(col, k) ==
    {p \in 1..Len(col) : p > Len(col) - k /\ ~IsNaN(col[p])}

\* C3: the statistics of a column and a lookback are absent when the trailing
\* period_days entries hold fewer than period_days / 2 non-missing values or
\* when all of those values are 0 (largest absolute value 0); in every other
\* case they are a record whose every field is a number.
C3_StatsAbsentOrFull ==
    (pc = "returned" /\ call.fn = "stats") =>
        LET W == WindowPositions(call.series, call.period_days)
        IN  IF \/ 2 * Cardinality(W) < call.period_days
               \/ \A p \in W : call.series[p] = Num(0)
            THEN ret = NoStats
            ELSE /\ ret.present
                 /\ ret.zero_cross_count \in 0..Len(call.series)
                 /\ IsFinite(ret.avg_distance)
                 /\ IsFinite(ret.max_distance)
                 /\ IsFinite(ret.pct_near_zero)
                 /\ variant = "root" => IsFinite(ret.oscillation_score)

C3_Witness ==
    /\ pc = "returned" /\ call.fn = "stats" /\ ret.present
    /\ Cardinality(WindowPositions(call.series, call.period_days))
          < call.period_days
    /\ \E p \in 1..Len(call.series) : IsNaN(call.series[p])

\* C4: whenever the statistics are produced, max_distance is exactly 100.
C4_MaxDistanceIs100 ==
    (pc = "returned" /\ call.fn = "stats" /\ ret.present) =>
        ret.max_distance = Num(100)

C4_Witness ==
    /\ pc = "returned" /\ call.fn = "stats" /\ ret.present
    /\ ret.max_distance = Num(100)
    /\ ret.avg_distance # Num(100)
    /\ \E p \in 1..Len(call.series) : Lt(call.series[p], Num(-1))

Mean3(x, y, z) == Div(Add(Add(x, y), z), Num(3))

\* C5: the maConverge that calculate_convergence returns is the arithmetic
\* mean of the three pairwise spreads pct_diff(ma5, ma20), pct_diff(ma20, ma60)
\* and pct_diff(ma5, ma60), rounded to two decimals.
C5_MaConvergeIsMeanOfSpreads ==
    (pc = "returned" /\ call.fn = "calculate_convergence") =>
        ret.maConverge = Round2(Mean3(pct_diff(call.a, call.b),
                                      pct_diff(call.b, call.c),
                                      pct_diff(call.a, call.c)))

\* C6: vaConverge follows the rule of maConverge: it is the arithmetic mean of
\* the three pairwise spreads of (va5, va20), (va20, va60) and (va5, va60).
C6_VaConvergeIsMeanOfSpreads ==
    (pc = "returned" /\ call.fn = "va_converge") =>
        Round2(ret.va_converge) = Round2(Mean3(pct_diff(call.a, call.b),
                                               pct_diff(call.b, call.c),
                                               pct_diff(call.a, call.c)))

\* C7: ad_ratio is exactly 0 on bar 0, on every bar whose close change or True
\* Range is undefined and on every bar whose True Range is 0; on every other
\* bar it is close_change / TR.
C7_AdRatioZeroOrQuotient ==
    (df.ad_ratio # NoColumn) =>
        \A p \in 1..Len(df.bars) :
            LET close_change == IF p = 1 THEN NaN
                                ELSE Sub(df.bars[p].c, df.bars[p - 1].c)
                tr == df.tr[p]
            IN  df.ad_ratio[p] =
                    IF IsNaN(close_change) \/ IsNaN(tr) \/ IsZero(tr)
                    THEN Num(0)
                    ELSE Div(close_change, tr)

C7_Witness ==
    /\ df.ad_ratio # NoColumn
    /\ \E p \in 2..Len(df.bars) : IsZero(df.tr[p]) /\ df.ad_ratio[p] = Num(0)
    /\ \E p \in 2..Len(df.bars) : ~IsZero(df.tr[p]) /\ ~IsZero(df.ad_ratio[p])

AllZeroVolume(bars) == \A p \in 1..Len(bars) : bars[p].v = Num(0)

\* C8: a history of at least 60 bars whose volume is 0 on every bar gives
\* va5 = va20 = va60 = 0, vaConverge = 0 in the snapshot, and an admf column
\* (and its daily cells) that is 0 on every bar.
C8_ZeroVolumeGivesZeroFlow ==
    (pc = "done" /\ result.kind = "ok" /\ AllZeroVolume(df.bars)) =>
        /\ loc.va5 = Num(0) /\ loc.va20 = Num(0) /\ loc.va60 = Num(0)
        /\ snapshot.vaConverge = Num(0)
        /\ snapshot.admf = Num(0)
        /\ \A p \in 1..Len(df.bars) :
              df.admf[p] = Num(0) /\ daily[p].admf = Num(0)

C8_Witness ==
    /\ pc = "done" /\ result.kind = "ok" /\ AllZeroVolume(df.bars)
    /\ \E p \in 1..Len(df.bars) : ~IsZero(df.ad_ratio[p])
    /\ df.admf[Len(df.bars)] = Num(0)

IsMax3(t, x, y, z) ==
    /\ t \in {x, y, z}
    /\ ~Lt(t, x) /\ ~Lt(t, y) /\ ~Lt(t, z)

TrueRangeRows(p) ==
    IsMax3(df.tr[p],
           Sub(df.bars[p].h, df.bars[p].l),
           AbsV(Sub(df.bars[p].h, df.bars[p - 1].c)),
           AbsV(Sub(df.bars[p].l, df.bars[p - 1].c)))

\* C10 as first stated: the True Range of bar 0 is the missing marker, and for
\* every i > 0 it is max(high-low, |high-prev close|, |low-prev close|).
C10_TrueRangeFirstBarMissing ==
    (df.tr # NoColumn) =>
        /\ IsNaN(df.tr[1])
        /\ \A p \in 2..Len(df.bars) :
              IsFinite(df.bars[p - 1].c) => TrueRangeRows(p)

\* C10 amended: the True Range of bar 0 is the number high[0] - low[0], and
\* for every i > 0 that has a previous close it is
\* max(high-low, |high-prev close|, |low-prev close|).
C10_TrueRangeFirstBarIsHighLow ==
    (df.tr # NoColumn) =>
        /\ df.tr[1] = Sub(df.bars[1].h, df.bars[1].l)
        /\ \A p \in 2..Len(df.bars) :
              IsFinite(df.bars[p - 1].c) => TrueRangeRows(p)

C10_Witness ==
    /\ df.tr # NoColumn
    /\ df.tr[1] = Num(1)
    /\ \E p \in 2..Len(df.bars) :
          Lt(Sub(df.bars[p].h, df.bars[p].l), df.tr[p])

\* C9: pct_diff(a, a) = 0 for every a, pct_diff(0, 0) = 0 included, and
\* pct_diff(a, b) = pct_diff(b, a).
C9_PctDiffZeroOnEqualAndSymmetric ==
    (pc = "returned" /\ call.fn = "pct_diff") =>
        /\ call.a = call.b => ret.value = Num(0)
        /\ ret.value = pct_diff(call.b, call.a)

C9_Witness ==
    /\ pc = "returned" /\ call.fn = "pct_diff"
    /\ call.a # call.b /\ ~IsZero(ret.value)
    /\ ret.value = pct_diff(call.b, call.a)

\* the last row of a computed column is missing
MissingLatest(col) == col # NoColumn /\ IsNaN(col[Len(col)])

SomeAverageMissingLatest ==
    \/ MissingLatest(df.ma5) \/ MissingLatest(df.ma20) \/ MissingLatest(df.ma60)
    \/ MissingLatest(df.va5) \/ MissingLatest(df.va20) \/ MissingLatest(df.va60)

\* C11: once process_stock has read the latest row, every price or volume
\* average that is missing there has been replaced by 0 before it reaches the
\* convergence computation; the reading raises nothing (the latest bar's own
\* volume being a number), and the snapshot's averages and convergence metrics
\* are all ordinary numbers.
C11_MissingLatestAverageIsZero ==
    (loc.set /\ SomeAverageMissingLatest) =>
        /\ MissingLatest(df.ma5) => loc.ma5 = Num(0)
        /\ MissingLatest(df.ma20) => loc.ma20 = Num(0)
        /\ MissingLatest(df.ma60) => loc.ma60 = Num(0)
        /\ MissingLatest(df.va5) => loc.va5 = Num(0)
        /\ MissingLatest(df.va20) => loc.va20 = Num(0)
        /\ MissingLatest(df.va60) => loc.va60 = Num(0)
        /\ IsFinite(df.bars[Len(df.bars)].v) => result.kind # "raised"
        /\ snapshot.set =>
              /\ IsFinite(snapshot.ma5) /\ IsFinite(snapshot.ma20)
              /\ IsFinite(snapshot.ma60)
              /\ IsFinite(snapshot.ma5_20) /\ IsFinite(snapshot.ma20_60)
              /\ IsFinite(snapshot.ma5_60) /\ IsFinite(snapshot.maConverge)
              /\ IsFinite(snapshot.vaConverge)

\* the non-missing entries of the trailing window, in order
WindowEntries(col, k) == SelectSeq(TailSeq(col, k), LAMBDA x : ~IsNaN(x))

\* adjacent pairs of col whose signs (-1, 0, +1) differ
SignChanges(col) ==
    Cardinality({p \in 2..Len(col) : Sgn(col[p][1]) # Sgn(col[p - 1][1])})

\* every exactly-zero entry stands alone between a positive and a negative one
ZerosArePassages(col) ==
    \A p \in 1..Len(col) :
        IsZero(col[p]) =>
            /\ 1 < p /\ p < Len(col)
            /\ Sgn(col[p - 1][1]) * Sgn(col[p + 1][1]) = -1

\* C12: zero_cross_count is the number of adjacent pairs of the trailing window
\* whose signs differ, and a passage from a positive entry through one
\* exactly-zero entry to a negative entry (or the reverse) adds one to it: on a
\* window whose zeros are all such passages the count is the number of
\* alternations of the nonzero signs.
C12_ZeroCrossCountsPassageOnce ==
    (pc = "returned" /\ call.fn = "stats" /\ ret.present) =>
        LET recent == WindowEntries(call.series, call.period_days)
        IN  /\ ret.zero_cross_count = SignChanges(recent)
            /\ ZerosArePassages(recent) =>
                  ret.zero_cross_count =
                      SignChanges(SelectSeq(recent, LAMBDA x : ~IsZero(x)))

\* the statistics the snapshot holds for a horizon
HorizonStats(snap, k) ==
    IF k = 22 THEN snap.admf_1m
    ELSE IF k = 44 THEN snap.admf_2m
    ELSE IF k = 66 THEN snap.admf_3m
    ELSE snap.admf_4m

Min(a, b) == IF a < b THEN a ELSE b

\* C13: for a history of at least 60 bars with no missing field, the admf
\* column has no missing entry, the trailing window of each horizon 22, 44, 66,
\* 88 holds min(n, period_days) values, which is at least period_days / 2, and
\* the snapshot's statistics for a horizon are absent exactly when admf is 0 on
\* that whole trailing window.
C13_InsufficientDataNeverFires ==
    (result.kind = "ok" /\ NoMissingField(df.bars)) =>
        /\ \A p \in 1..Len(df.bars) : IsFinite(df.admf[p])
        /\ \A k \in Horizons :
              LET recent == WindowEntries(df.admf, k)
              IN  /\ Len(recent) = Min(Len(df.bars), k)
                  /\ 2 * Len(recent) >= k
                  /\ ~HorizonStats(snapshot, k).present
                        <=> \A p \in 1..Len(recent) : recent[p] = Num(0)

C13_Witness ==
    /\ result.kind = "ok" /\ NoMissingField(df.bars)
    /\ Len(df.bars) = MinBars
    /\ snapshot.admf_3m.present /\ snapshot.admf_4m.present
    /\ df.admf[Len(df.bars) - 21] = Num(0)

\* symbols whose counter increment was the given one
CountedAs(kind) ==
    {main.tally[q][1] : q \in {r \in 1..Len(main.tally) : main.tally[r][2] = kind}}

\* symbols process_stock has been called for when main has ended
SymbolsProcessed ==
    IF main.status = "done" THEN Len(main.all_stocks) ELSE main.i

\* C14: when main has ended after a loop over the symbols, whatever each
\* symbol's outcome was (a result, no result, an exception while processing or
\* while writing the daily file), snapshot.json has been written and lists
\* exactly the symbols counted as successes, each of them with its daily file
\* written; no symbol counted as failed is listed; and success + failed is the
\* number of symbols processed.
C14_SnapshotListIsSuccesses ==
    (main.status \in {"done", "crashed"}) =>
        LET listed == {main.snapshot_json.stocks[q] :
                          q \in 1..Len(main.snapshot_json.stocks)}
        IN  /\ main.snapshot_json.written
            /\ listed = CountedAs("success")
            /\ Len(main.snapshot_json.stocks) = main.success
            /\ listed \subseteq main.files
            /\ listed \cap CountedAs("failed") = {}
            /\ main.success + main.failed = SymbolsProcessed

====
